---- MODULE Spec2Model ----
(***************************************************************************)
(* The inventory web application: five Express routes of app.js, each      *)
(* issuing one parameterized SQL statement against the table `stuff`       *)
(* created by db/db_init.js, and answering from the statement's outcome.   *)
(*                                                                         *)
(* A request is handled in three steps, as the callback style of the code  *)
(* makes them: the handler runs and hands its statement to the store       *)
(* (Receive), the store executes the statement (StoreExecute), and the     *)
(* handler's callback turns the outcome into the response (Callback).      *)
(* Requests of different clients interleave between these steps.           *)
(***************************************************************************)
EXTENDS Integers, Sequences, FiniteSets, TLC

VARIABLES
    stuff,      \* the table: a set of rows [id, item, quantity, description]
    autoInc,    \* the table's AUTO_INCREMENT counter: the id of the next inserted row
    reqs,       \* the requests being handled, one per slot
    lastWrite,  \* history: per id, the last request that wrote or removed its row
    trip,       \* the round trip a browser is making, if one is
    runs,       \* the runs of a request that a client sends twice, if one does
    script      \* the initialisation script: its position and whether the table exists

vars == <<stuff, autoInc, reqs, lastWrite, trip, runs, script>>

----------------------------------------------------------------------------
(* Bounds of the model.                                                    *)

\* Requests handled at the same time.
MaxInFlight == 2
\* Rows the requests may insert on top of the sample rows.
MaxCreates == 2

----------------------------------------------------------------------------
(* Values. Form fields and path parameters are text; a missing form field  *)
(* reads as undefined; a column holds text, an integer or NULL.            *)

Undefined == [type |-> "undefined"]
Null == [type |-> "null"]
Str(s) == [type |-> "string", val |-> s]

\* Column widths of the table.
ItemMaxLen == 45
DescriptionMaxLen == 150
IntMax == 2147483647

DigitChars == <<"0", "1", "2", "3", "4", "5", "6", "7", "8", "9">>

IsDigit(c) == \E i \in 1..10 : DigitChars[i] = c

DigitVal(c) == (CHOOSE i \in 1..10 : DigitChars[i] = c) - 1

\* Text that is an integer literal: digits, after an optional minus sign.
IsIntText(s) ==
    LET body == IF Len(s) > 0 /\ Head(s) = "-" THEN Tail(s) ELSE s
    IN  /\ Len(body) > 0
        /\ \A i \in 1..Len(body) : IsDigit(SubSeq(body, i, i))

RECURSIVE DigitsVal(_)
DigitsVal(s) ==
    IF Len(s) = 0 THEN 0
    ELSE 10 * DigitsVal(SubSeq(s, 1, Len(s) - 1)) + DigitVal(SubSeq(s, Len(s), Len(s)))

\* The integer a text converts to when it is stored in, or compared with,
\* an INT column.
ParseInt(s) ==
    IF Head(s) = "-" THEN 0 - DigitsVal(Tail(s)) ELSE DigitsVal(s)

RECURSIVE StripZeros(_)
StripZeros(s) ==
    IF Len(s) > 1 /\ Head(s) = "0" THEN StripZeros(Tail(s)) ELSE s

\* Whether the integer literal fits the signed 32-bit INT column, decided on
\* the digits so that no intermediate value leaves the range.
InIntRange(s) ==
    LET neg == Head(s) = "-"
        digits == StripZeros(IF neg THEN Tail(s) ELSE s)
        n == Len(digits)
        last == DigitVal(SubSeq(digits, n, n))
        lead == DigitsVal(SubSeq(digits, 1, n - 1))
    IN  \/ n < 10
        \/ /\ n = 10
           /\ \/ lead < IntMax \div 10
              \/ lead = IntMax \div 10 /\ last <= (IntMax % 10) + (IF neg THEN 1 ELSE 0)

RECURSIVE FormatNat(_)
FormatNat(n) ==
    IF n < 10 THEN DigitChars[n + 1]
    ELSE FormatNat(n \div 10) \o DigitChars[(n % 10) + 1]

\* A number interpolated into a template literal.
FormatInt(n) == IF n < 0 THEN "-" \o FormatNat(0 - n) ELSE FormatNat(n)

----------------------------------------------------------------------------
(* The table `stuff` and the store that executes statements against it.    *)

\* The rows db_init.js inserts into the freshly created table.
SampleRows ==
    { [id |-> 1, item |-> "Widgets", quantity |-> ParseInt("5"),
       description |-> Str("Widgets are cool! You can do ... so many... different things... with them...")],
      [id |-> 2, item |-> "Gizmos", quantity |-> ParseInt("100"), description |-> Null],
      [id |-> 3, item |-> "Thingamajig", quantity |-> ParseInt("12345"),
       description |-> Str("Not to be confused with a Thingamabob")],
      [id |-> 4, item |-> "Thingamabob", quantity |-> ParseInt("54321"),
       description |-> Str("Not to be confused with a Thingamajig")] }

\* Whether the table's column takes the bound value p: item VARCHAR(45) NOT
\* NULL, quantity INT NOT NULL, description VARCHAR(150) NULL.
ColumnOk(col, p) ==
    CASE col = "item" -> p.type = "string" /\ Len(p.val) <= ItemMaxLen
      [] col = "quantity" ->
            /\ p.type = "string"
            /\ IsIntText(p.val)
            /\ InIntRange(p.val)
      [] col = "description" ->
            \/ p.type = "null"
            \/ p.type = "string" /\ Len(p.val) <= DescriptionMaxLen
      [] OTHER -> FALSE

\* The value the column holds once the bound value p is stored in it.
ColumnVal(col, p) ==
    CASE col = "item" -> p.val
      [] col = "quantity" -> ParseInt(p.val)
      [] OTHER -> p

\* Mutant: the id is one more than the largest id in the table, not the
\* counter's value.
DefaultRowAfterMax(id) ==
    [id |-> IF stuff = {} THEN 1
            ELSE 1 + CHOOSE m \in { r.id : r \in stuff } : \A r \in stuff : r.id <= m,
     item |-> "", quantity |-> 0, description |-> Null]

\* A row before any column is assigned: description defaults to NULL.
DefaultRow(id) == [id |-> id, item |-> "", quantity |-> 0, description |-> Null]

IndexOf(cols, c) == CHOOSE i \in 1..Len(cols) : cols[i] = c

ColSet(cols) == { cols[i] : i \in 1..Len(cols) }

\* The row with the statement's columns assigned from the bound values, in
\* the statement's column order.
Assign(row, cols, params) ==
    [c \in DOMAIN row |->
        IF c \in ColSet(cols) THEN ColumnVal(c, params[IndexOf(cols, c)]) ELSE row[c]]

AllOk(cols, params) == \A i \in 1..Len(cols) : ColumnOk(cols[i], params[i])

\* WHERE id = ?  with a text bound to the placeholder.
MatchesId(row, p) ==
    /\ p.type = "string"
    /\ IsIntText(p.val)
    /\ row.id = ParseInt(p.val)

\* The columns of row the SELECT lists.
Project(row, cols) == [c \in ColSet(cols) |-> row[c]]

\* The array of rows a SELECT reports: its length and its elements, which
\* the store lists in no defined order.
Array(rows) == [length |-> Cardinality(rows), rows |-> rows]

HasUndefined(params) == \E i \in 1..Len(params) : params[i] = Undefined

Ok(results, table, auto) ==
    [error |-> Null, results |-> results, table |-> table, auto |-> auto]

Failed(code, table, auto) ==
    [error |-> Str(code), results |-> Undefined, table |-> table, auto |-> auto]

\* The store executing one statement: the error or the results it reports,
\* and the table and counter it leaves.
Execute(sql, params, table, auto) ==
    LET idParam == params[Len(params)]
        \* the rows the statement's WHERE clause selects
        hit == IF sql.byId THEN { r \in table : MatchesId(r, idParam) } ELSE table
    IN
    IF HasUndefined(params) THEN Failed("ER_UNDEFINED_PARAMETER", table, auto)
    ELSE CASE sql.cmd = "SELECT" ->
              Ok(Array({ Project(r, sql.cols) : r \in hit }), table, auto)
           [] sql.cmd = "DELETE" ->
              Ok([affectedRows |-> Cardinality(hit)], table \ hit, auto)
           [] sql.cmd = "UPDATE" ->
              IF hit # {} /\ ~AllOk(sql.cols, params)
              THEN Failed("ER_BAD_VALUE", table, auto)
              ELSE Ok([affectedRows |-> Cardinality(hit)],
                      (table \ hit) \cup { Assign(r, sql.cols, params) : r \in hit },
                      auto)
           [] sql.cmd = "INSERT" ->
              IF ~AllOk(sql.cols, params)
              THEN Failed("ER_BAD_VALUE", table, auto)
              ELSE Ok([affectedRows |-> 1, insertId |-> auto],
                      table \cup { Assign(DefaultRow(auto), sql.cols, params) },
                      auto + 1)

----------------------------------------------------------------------------
(* Requests and responses.                                                 *)

\* The id the first inserted row gets after db_init.js has run.
FirstNewId == Cardinality(SampleRows) + 1

\* Path parameters the requests carry: a sample row's id, the same id
\* written with a leading zero, and the id of the first inserted row.
IdTexts == { "1", "01", FormatInt(FirstNewId) }

LongName == "An item name that is longer than forty-five characters"

\* Form bodies the requests carry (urlencoded: every field is text).
Bodies ==
    { [name |-> "Widgets", quantity |-> "5"],
      [name |-> "Widgets", quantity |-> "5", description |-> ""],
      [name |-> "X", quantity |-> "09", description |-> "Y"],
      [name |-> "X", quantity |-> "x", description |-> "Y"],
      [quantity |-> "5", description |-> "Y"],
      [name |-> LongName, quantity |-> "5", description |-> "Y"],
      [name |-> "X", quantity |-> "2147483648", description |-> "Y"] }

NoBody == [f \in {} |-> ""]

Get(path) == [method |-> "GET", path |-> path, body |-> NoBody]
Post(path, body) == [method |-> "POST", path |-> path, body |-> body]

ListPath == <<"stuff">>
ItemPath(id) == <<"stuff", "item", id>>
DeletePath(id) == <<"stuff", "item", id, "delete">>

Requests ==
    {Get(ListPath)}
    \cup { Get(ItemPath(i)) : i \in IdTexts }
    \cup { Get(DeletePath(i)) : i \in IdTexts }
    \cup { Post(ListPath, b) : b \in Bodies }
    \cup { Post(ItemPath(i), b) : i \in IdTexts, b \in Bodies }

\* req.body.<field>: undefined when the form did not carry the field.
Field(body, f) == IF f \in DOMAIN body THEN Str(body[f]) ELSE Undefined

\* req.params.id
ParamId(req) == req.path[3]

\* res.status(code).send(body)
Send(status, body) == [status |-> status, kind |-> "send", body |-> body]
\* res.render(view, locals)
Render(view, locals) == [status |-> 200, kind |-> "render", view |-> view, locals |-> locals]
\* res.redirect(location)
Redirect(location) == [status |-> 302, kind |-> "redirect", location |-> location]

----------------------------------------------------------------------------
(* The five routes of app.js: the statement each handler issues, and the   *)
(* responses its callback sends for the outcome the store reported.        *)

\* Mutant: SELECT * in place of the three listed columns.
read_stuff_all_sql_star ==
    [cmd |-> "SELECT", cols |-> <<"id", "item", "quantity", "description">>, byId |-> FALSE]

read_stuff_all_sql ==
    [cmd |-> "SELECT", cols |-> <<"id", "item", "quantity">>, byId |-> FALSE]

\* Mutant: the SELECT of one item has lost its WHERE clause.
read_stuff_item_sql_all ==
    [cmd |-> "SELECT", cols |-> <<"id", "item", "quantity", "description">>, byId |-> FALSE]

read_stuff_item_sql ==
    [cmd |-> "SELECT", cols |-> <<"id", "item", "quantity", "description">>, byId |-> TRUE]

\* Mutant: the DELETE has lost its WHERE clause.
delete_item_sql_all == [cmd |-> "DELETE", cols |-> <<>>, byId |-> FALSE]

delete_item_sql == [cmd |-> "DELETE", cols |-> <<>>, byId |-> TRUE]

\* Mutant: the UPDATE does not set the description.
update_item_sql_no_description ==
    [cmd |-> "UPDATE", cols |-> <<"item", "quantity">>, byId |-> TRUE]

\* Mutant: the UPDATE has lost its WHERE clause.
update_item_sql_all ==
    [cmd |-> "UPDATE", cols |-> <<"item", "quantity", "description">>, byId |-> FALSE]

update_item_sql ==
    [cmd |-> "UPDATE", cols |-> <<"item", "quantity", "description">>, byId |-> TRUE]

create_item_sql == [cmd |-> "INSERT", cols |-> <<"item", "quantity">>, byId |-> FALSE]

Call(sql, params) == [sql |-> sql, params |-> params]

\* The route a (method, path) pair is bound to.
\* Mutant: the delete path is bound to the detail handler.
RouteDeleteAsDetail(req) ==
    CASE req.method = "GET" /\ req.path = ListPath -> "list"
      [] req.method = "GET" /\ Len(req.path) \in {3, 4} -> "detail"
      [] req.method = "POST" /\ Len(req.path) = 3 -> "update"
      [] req.method = "POST" /\ req.path = ListPath -> "create"

Route(req) ==
    CASE req.method = "GET" /\ req.path = ListPath -> "list"
      [] req.method = "GET" /\ Len(req.path) = 3 -> "detail"
      [] req.method = "GET" /\ Len(req.path) = 4 -> "delete"
      [] req.method = "POST" /\ Len(req.path) = 3 -> "update"
      [] req.method = "POST" /\ req.path = ListPath -> "create"

\* GET /stuff
ListExecute(req) == <<Call(read_stuff_all_sql, <<>>)>>

\* Mutant: the callback does not look at the error.
ListCallbackIgnoresError(req, error, results) ==
    {<<Render("stuff", [inventory |-> results])>>}

ListCallback(req, error, results) ==
    IF error # Null
    THEN {<<Send(500, error)>>}
    ELSE {<<Render("stuff", [inventory |-> results])>>}

\* Mutant: the detail route issues the delete route's statement.
DetailExecuteDelete(req) == <<Call(delete_item_sql, <<Str(ParamId(req))>>)>>

\* GET /stuff/item/:id
DetailExecute(req) == <<Call(read_stuff_item_sql, <<Str(ParamId(req))>>)>>

NotFoundMessage(id) == "No item found with id = \"" \o id \o "\""

\* Mutant: the callback has no branch for an empty result.
DetailCallbackNo404(req, error, results) ==
    IF error # Null
    THEN {<<Send(500, error)>>}
    ELSE IF results.length = 0
    THEN {<<Render("item", Undefined)>>}
    ELSE { <<Render("item", data)>> : data \in results.rows }

\* Mutant: the branch for an empty result returns without responding.
DetailCallbackSilent(req, error, results) ==
    IF error # Null
    THEN {<<Send(500, error)>>}
    ELSE IF results.length = 0
    THEN {<<>>}
    ELSE { <<Render("item", data)>> : data \in results.rows }

DetailCallback(req, error, results) ==
    IF error # Null
    THEN {<<Send(500, error)>>}
    ELSE IF results.length = 0
    THEN {<<Send(404, NotFoundMessage(ParamId(req)))>>}
    ELSE \* results[0]: the store lists the rows in no defined order
         { <<Render("item", data)>> : data \in results.rows }

\* Mutant: the delete route issues the detail route's statement.
DeleteExecuteSelect(req) == <<Call(read_stuff_item_sql, <<Str(ParamId(req))>>)>>

\* GET /stuff/item/:id/delete
DeleteExecute(req) == <<Call(delete_item_sql, <<Str(ParamId(req))>>)>>

\* Mutant: the callback answers 404 when no row was affected.
DeleteCallback404(req, error, results) ==
    IF error # Null
    THEN {<<Send(500, error)>>}
    ELSE IF results.affectedRows = 0
    THEN {<<Send(404, NotFoundMessage(ParamId(req)))>>}
    ELSE {<<Redirect(ListPath)>>}

DeleteCallback(req, error, results) ==
    IF error # Null
    THEN {<<Send(500, error)>>}
    ELSE {<<Redirect(ListPath)>>}

\* Mutant: name and description are bound in each other's place.
UpdateExecuteSwapped(req) ==
    <<Call(update_item_sql,
           <<Field(req.body, "description"), Field(req.body, "quantity"),
             Field(req.body, "name"), Str(ParamId(req))>>)>>

\* Mutant: the update route issues the create route's statement.
UpdateExecuteInsert(req) ==
    <<Call(create_item_sql, <<Field(req.body, "name"), Field(req.body, "quantity")>>)>>

\* Mutant: the update route issues the delete route's statement.
UpdateExecuteDelete(req) == <<Call(delete_item_sql, <<Str(ParamId(req))>>)>>

\* POST /stuff/item/:id
UpdateExecute(req) ==
    <<Call(update_item_sql,
           <<Field(req.body, "name"), Field(req.body, "quantity"),
             Field(req.body, "description"), Str(ParamId(req))>>)>>

\* Mutant: the error branch does not end the callback.
UpdateCallbackNoElse(req, error, results) ==
    IF error # Null
    THEN {<<Send(500, error), Redirect(ItemPath(ParamId(req)))>>}
    ELSE {<<Redirect(ItemPath(ParamId(req)))>>}

UpdateCallback(req, error, results) ==
    IF error # Null
    THEN {<<Send(500, error)>>}
    ELSE {<<Redirect(ItemPath(ParamId(req)))>>}

\* POST /stuff
CreateExecute(req) ==
    <<Call(create_item_sql, <<Field(req.body, "name"), Field(req.body, "quantity")>>)>>

\* Mutant: the redirect goes back to the list, as the delete route's does.
CreateCallbackToList(req, error, results) ==
    IF error # Null
    THEN {<<Send(500, error)>>}
    ELSE {<<Redirect(ListPath)>>}

\* Mutant: the redirect is built from the wrong field of the result.
CreateCallbackWrongId(req, error, results) ==
    IF error # Null
    THEN {<<Send(500, error)>>}
    ELSE {<<Redirect(ItemPath(FormatInt(results.affectedRows)))>>}

\* Mutant: the callback answers 500 whatever the store reported.
CreateCallbackAlways500(req, error, results) == {<<Send(500, error)>>}

CreateCallback(req, error, results) ==
    IF error # Null
    THEN {<<Send(500, error)>>}
    ELSE {<<Redirect(ItemPath(FormatInt(results.insertId)))>>}

\* The db.execute calls the handler bound to the request makes.
Handler(req) ==
    CASE Route(req) = "list" -> ListExecute(req)
      [] Route(req) = "detail" -> DetailExecute(req)
      [] Route(req) = "delete" -> DeleteExecute(req)
      [] Route(req) = "update" -> UpdateExecute(req)
      [] Route(req) = "create" -> CreateExecute(req)

\* The responses the handler's callback may send, each a sequence of the
\* responses one run of the callback sends.
HandlerCallback(req, error, results) ==
    CASE Route(req) = "list" -> ListCallback(req, error, results)
      [] Route(req) = "detail" -> DetailCallback(req, error, results)
      [] Route(req) = "delete" -> DeleteCallback(req, error, results)
      [] Route(req) = "update" -> UpdateCallback(req, error, results)
      [] Route(req) = "create" -> CreateCallback(req, error, results)

----------------------------------------------------------------------------
(* The state machine.                                                      *)

Slots == 1..MaxInFlight

Idle == [pc |-> "idle"]

NoWrites == [i \in {} |-> Undefined]

\* f with the ids of `ids` mapped to entry.
Written(f, ids, entry) ==
    [i \in DOMAIN f \cup ids |-> IF i \in ids THEN entry ELSE f[i]]

NoTrip == [step |-> 0, location |-> <<>>, before |-> {}, final |-> Undefined]

NoScript == [pc |-> 0, run |-> 0, exists |-> TRUE, read |-> Undefined, before |-> {}]

Init ==
    /\ stuff = SampleRows
    /\ autoInc = FirstNewId
    /\ reqs = [k \in Slots |-> Idle]
    /\ lastWrite = NoWrites
    /\ trip = NoTrip
    /\ runs = <<>>
    /\ script = NoScript

\* Inserts not yet executed by the store.
PendingCreates ==
    Cardinality({ k \in Slots : reqs[k].pc = "query" /\ Route(reqs[k].req) = "create" })

\* The request arrives and its handler runs: it hands its statement to the
\* store with db.execute and returns.
Receive(k, req) ==
    /\ reqs[k].pc = "idle"
    /\ Route(req) = "create" => autoInc + PendingCreates < FirstNewId + MaxCreates
    /\ reqs' = [reqs EXCEPT ![k] =
                  [pc |-> "query", req |-> req, issued |-> Handler(req),
                   error |-> Null, results |-> Undefined, sent |-> <<>>,
                   matched |-> {}, wrote |-> {}, table |-> {}, seen |-> NoWrites]]
    /\ UNCHANGED <<stuff, autoInc, lastWrite>>

\* The ids of the rows the request's path parameter selects.
HitIds(req) ==
    IF Len(req.path) < 3 THEN {}
    ELSE { r.id : r \in { x \in stuff : MatchesId(x, Str(ParamId(req))) } }

\* The store executes the statement, or fails to (the connection is lost),
\* and reports the outcome. History: lastWrite notes the request that wrote
\* or removed a row; the request notes the rows its path parameter selected
\* (matched), the rows it wrote or removed (wrote), and the table and history
\* its statement ran against (table, seen).
StoreExecute(k) ==
    /\ reqs[k].pc = "query"
    /\ \E lost \in BOOLEAN :
        LET req == reqs[k].req
            call == reqs[k].issued[1]
            out == IF lost THEN Failed("ECONNREFUSED", stuff, autoInc)
                   ELSE Execute(call.sql, call.params, stuff, autoInc)
            ok == out.error = Null
            wrote == IF ~ok THEN {}
                     ELSE CASE Route(req) = "create" -> {autoInc}
                            [] Route(req) \in {"update", "delete"} -> HitIds(req)
                            [] OTHER -> {}
            entry == [op |-> Route(req), body |-> req.body, location |-> <<>>]
        IN  /\ stuff' = out.table
            /\ autoInc' = out.auto
            /\ lastWrite' = Written(lastWrite, wrote, entry)
            /\ reqs' = [reqs EXCEPT ![k] =
                          [@ EXCEPT !.pc = "result", !.error = out.error,
                                    !.results = out.results,
                                    !.matched = HitIds(req),
                                    !.wrote = wrote,
                                    !.table = stuff,
                                    !.seen = lastWrite]]

\* The callback of db.execute runs with the reported outcome and responds.
\* History: lastWrite notes where the writing request was redirected to.
Callback(k) ==
    /\ reqs[k].pc = "result"
    /\ \E sent \in HandlerCallback(reqs[k].req, reqs[k].error, reqs[k].results) :
        /\ reqs' = [reqs EXCEPT ![k] = [@ EXCEPT !.pc = "done", !.sent = sent]]
        /\ lastWrite' =
             [i \in DOMAIN lastWrite |->
                IF i \in reqs[k].wrote /\ Len(sent) > 0 /\ sent[1].kind = "redirect"
                THEN [lastWrite[i] EXCEPT !.location = sent[1].location]
                ELSE lastWrite[i]]
    /\ UNCHANGED <<stuff, autoInc>>

\* The client has the response; the exchange is over.
Complete(k) ==
    /\ reqs[k].pc = "done"
    /\ reqs' = [reqs EXCEPT ![k] = Idle]
    /\ UNCHANGED <<stuff, autoInc, lastWrite>>

\* One client at a time: each request is answered before the next arrives.
Next ==
    \/ \E req \in Requests : Receive(1, req) /\ UNCHANGED <<trip, runs, script>>
    \/ StoreExecute(1) /\ UNCHANGED <<trip, runs, script>>
    \/ Callback(1) /\ UNCHANGED <<trip, runs, script>>
    \/ Complete(1) /\ UNCHANGED <<trip, runs, script>>

Spec == Init /\ [][Next]_vars

----------------------------------------------------------------------------
(* The round trip: one browser creates an item, follows the redirect to    *)
(* its page, submits the Edit form, follows the redirect, follows the      *)
(* Delete link and the redirect to the list. No other client is active.    *)

TripSteps == <<"create", "detail", "update", "detail", "delete", "list">>

TripDone == Len(TripSteps) + 1
TripAborted == Len(TripSteps) + 2

\* Tables the round trip may start from: any of the sample rows deleted or
\* edited, with or without a row inserted since.
StartTables ==
    { (SampleRows \ gone) \cup added :
        gone \in SUBSET SampleRows,
        added \in { {}, {[id |-> FirstNewId, item |-> "X", quantity |-> 9,
                          description |-> Str("Y")]} } }

InitTrip ==
    /\ stuff \in StartTables
    /\ autoInc \in { a \in FirstNewId..(FirstNewId + 1) : \A r \in stuff : r.id < a }
    /\ reqs = [k \in Slots |-> Idle]
    /\ lastWrite = NoWrites
    /\ trip = [step |-> 1, location |-> ListPath, before |-> stuff, final |-> Undefined]
    /\ runs = <<>>
    /\ script = NoScript

\* The request the browser sends at the current step: a form posted to the
\* page it is on, or a link or redirect followed from it.
TripRequests ==
    CASE TripSteps[trip.step] \in {"create", "update"} ->
            { Post(trip.location, b) : b \in Bodies }
      [] TripSteps[trip.step] = "delete" ->
            { Get(trip.location \o <<"delete">>) }
      [] OTHER -> { Get(trip.location) }

TripSend ==
    /\ trip.step <= Len(TripSteps)
    /\ \E req \in TripRequests : Receive(1, req)
    /\ UNCHANGED <<trip, runs, script>>

\* The browser has the response: it goes on with the redirect's location or
\* stays on the rendered page, and gives up on an error.
TripComplete ==
    /\ trip.step <= Len(TripSteps)
    /\ Complete(1)
    /\ UNCHANGED <<runs, script>>
    /\ LET resp == reqs[1].sent[1]
           step == TripSteps[trip.step]
       IN  trip' =
            IF step \in {"create", "update", "delete"} /\ resp.kind = "redirect"
            THEN [trip EXCEPT !.step = @ + 1, !.location = resp.location]
            ELSE IF step \in {"detail", "list"} /\ resp.kind = "render"
            THEN [trip EXCEPT !.step = @ + 1,
                              !.final = IF step = "list" THEN resp ELSE @]
            ELSE [trip EXCEPT !.step = TripAborted]

NextTrip ==
    \/ TripSend
    \/ StoreExecute(1) /\ UNCHANGED <<trip, runs, script>>
    \/ Callback(1) /\ UNCHANGED <<trip, runs, script>>
    \/ TripComplete

SpecTrip == InitTrip /\ [][NextTrip]_vars

----------------------------------------------------------------------------
(* The same request sent twice.  A client sends a request, waits for the   *)
(* response and sends the same request again; in between, the table may be *)
(* set up again by the initialisation script.  runs records, for each of   *)
(* the two, the table and counter it met and what came of it.              *)

\* db_init.js: drop the table, create it, insert the sample rows.
DbInit ==
    /\ stuff' = SampleRows
    /\ autoInc' = FirstNewId
    /\ lastWrite' = NoWrites
    /\ UNCHANGED reqs

InitTwice ==
    /\ stuff \in StartTables
    /\ autoInc \in { a \in FirstNewId..(FirstNewId + 1) : \A r \in stuff : r.id < a }
    /\ reqs = [k \in Slots |-> Idle]
    /\ lastWrite = NoWrites
    /\ trip = NoTrip
    /\ runs = <<>>
    /\ script = NoScript

Started(req) ==
    [req |-> req, before |-> stuff, auto |-> autoInc, done |-> FALSE,
     issued |-> <<>>, error |-> Null, results |-> Undefined, sent |-> <<>>,
     after |-> {}, autoAfter |-> 0]

TwiceSend ==
    /\ Len(runs) < 2
    /\ \E req \in (IF runs = <<>> THEN Requests ELSE {runs[1].req}) :
            /\ Receive(1, req)
            /\ runs' = Append(runs, Started(req))
    /\ UNCHANGED <<trip, script>>

TwiceComplete ==
    /\ Complete(1)
    /\ runs' = [runs EXCEPT ![Len(runs)] =
                  [@ EXCEPT !.done = TRUE,
                            !.issued = reqs[1].issued,
                            !.error = reqs[1].error,
                            !.results = reqs[1].results,
                            !.sent = reqs[1].sent,
                            !.after = stuff,
                            !.autoAfter = autoInc]]
    /\ UNCHANGED <<trip, script>>

\* The script is run between the two requests, while none is in flight.
TwiceDbInit ==
    /\ Len(runs) = 1
    /\ runs[1].done
    /\ <<stuff, autoInc>> # <<SampleRows, FirstNewId>>
    /\ DbInit
    /\ UNCHANGED <<trip, runs, script>>

NextTwice ==
    \/ TwiceSend
    \/ StoreExecute(1) /\ UNCHANGED <<trip, runs, script>>
    \/ Callback(1) /\ UNCHANGED <<trip, runs, script>>
    \/ TwiceComplete
    \/ TwiceDbInit

SpecTwice == InitTwice /\ [][NextTwice]_vars

----------------------------------------------------------------------------
(* Updates of one row handled at the same time.  Every slot takes one      *)
(* Update of the row with id 1; the store executes the statements one at a *)
(* time, in any order.                                                     *)

\* Bodies of the racing Updates: two the store accepts, one it rejects.
RaceBodies ==
    { b \in Bodies :
        /\ {"name", "description"} \subseteq DOMAIN b
        /\ b.quantity \in {"5", "09"} }

UpdateRaces == { Post(ItemPath(i), b) : i \in {"1", "01"}, b \in RaceBodies }

NextUpdates ==
    \/ \E k \in Slots, req \in UpdateRaces :
            Receive(k, req) /\ UNCHANGED <<trip, runs, script>>
    \/ \E k \in Slots : StoreExecute(k) /\ UNCHANGED <<trip, runs, script>>
    \/ \E k \in Slots : Callback(k) /\ UNCHANGED <<trip, runs, script>>

SpecUpdates == Init /\ [][NextUpdates]_vars

----------------------------------------------------------------------------
(* The initialisation script.  db_init.js hands its statements to the      *)
(* store one after the other and ends the connection; the store executes   *)
(* them in the order it was given them.  The script is run by hand, while  *)
(* no request is being handled, and may be run again.                      *)

drop_stuff_table_sql == [cmd |-> "DROP", cols |-> <<>>, byId |-> FALSE]

create_stuff_table_sql == [cmd |-> "CREATE", cols |-> <<>>, byId |-> FALSE]

insert_stuff_table_sql ==
    [cmd |-> "INSERT", cols |-> <<"item", "quantity", "description">>, byId |-> FALSE]

read_stuff_table_sql ==
    [cmd |-> "SELECT", cols |-> <<"id", "item", "quantity", "description">>, byId |-> FALSE]

SampleInserts ==
    << Call(insert_stuff_table_sql,
         <<Str("Widgets"), Str("5"),
           Str("Widgets are cool! You can do ... so many... different things... with them...")>>),
       Call(insert_stuff_table_sql, <<Str("Gizmos"), Str("100"), Null>>),
       Call(insert_stuff_table_sql,
         <<Str("Thingamajig"), Str("12345"), Str("Not to be confused with a Thingamabob")>>),
       Call(insert_stuff_table_sql,
         <<Str("Thingamabob"), Str("54321"), Str("Not to be confused with a Thingamajig")>>) >>

\* Mutant: the script does not drop the table first.
DbInitCallsNoDrop ==
    <<Call(create_stuff_table_sql, <<>>)>> \o SampleInserts
        \o <<Call(read_stuff_table_sql, <<>>)>>

\* The db.execute calls of the script, in program order.
DbInitCalls ==
    <<Call(drop_stuff_table_sql, <<>>), Call(create_stuff_table_sql, <<>>)>>
        \o SampleInserts \o <<Call(read_stuff_table_sql, <<>>)>>

\* The script's position once a statement has failed: the error is thrown.
ScriptFailed == Len(DbInitCalls) + 2

\* Tables the script may find: none, or any of StartTables.
InitScript ==
    /\ stuff \in StartTables
    /\ autoInc \in { a \in FirstNewId..(FirstNewId + 1) : \A r \in stuff : r.id < a }
    /\ reqs = [k \in Slots |-> Idle]
    /\ lastWrite = NoWrites
    /\ trip = NoTrip
    /\ runs = <<>>
    /\ \E exists \in { e \in BOOLEAN : ~e => stuff = {} } :
            script = [NoScript EXCEPT !.exists = exists]

\* node db/db_init.js
ScriptStart ==
    /\ script.pc = 0
    /\ script.run < 2
    /\ script' = [script EXCEPT !.pc = 1, !.run = @ + 1, !.read = Undefined,
                                !.before = IF script.run = 0 THEN stuff ELSE @]
    /\ UNCHANGED <<stuff, autoInc, reqs, lastWrite, trip, runs>>

\* The store executes the script's next statement.
ScriptExecute ==
    /\ script.pc \in 1..Len(DbInitCalls)
    /\ LET call == DbInitCalls[script.pc]
           cmd == call.sql.cmd
           out == Execute(call.sql, call.params, stuff, autoInc)
           next == [script EXCEPT !.pc = @ + 1]
           failed == [script EXCEPT !.pc = ScriptFailed]
       IN  CASE cmd = "DROP" ->
                 /\ stuff' = {}
                 /\ autoInc' = autoInc
                 /\ script' = [next EXCEPT !.exists = FALSE]
             [] cmd = "CREATE" /\ ~script.exists ->
                 /\ stuff' = {}
                 /\ autoInc' = 1
                 /\ script' = [next EXCEPT !.exists = TRUE]
             [] cmd \in {"INSERT", "SELECT"} /\ script.exists /\ out.error = Null ->
                 /\ stuff' = out.table
                 /\ autoInc' = out.auto
                 /\ script' = IF cmd = "SELECT"
                              THEN [next EXCEPT !.read = out.results]
                              ELSE next
             [] OTHER ->
                 /\ script' = failed
                 /\ UNCHANGED <<stuff, autoInc>>
    /\ lastWrite' = NoWrites
    /\ UNCHANGED <<reqs, trip, runs>>

\* db.end()
ScriptEnd ==
    /\ script.pc = Len(DbInitCalls) + 1
    /\ script' = [script EXCEPT !.pc = 0]
    /\ UNCHANGED <<stuff, autoInc, reqs, lastWrite, trip, runs>>

NextScript ==
    \/ ScriptStart
    \/ ScriptExecute
    \/ ScriptEnd

SpecScript == InitScript /\ [][NextScript]_vars

----------------------------------------------------------------------------
(* Properties of the sequential specification.                             *)

\* The request in slot k was handled by the given route and has its response.
Answered(k, route) == reqs[k].pc = "done" /\ Route(reqs[k].req) = route

\* The store reported no error for the request's statement.
Succeeded(k) == reqs[k].error = Null

\* The path parameter text selects the row with id i.
Selects(text, i) == MatchesId([id |-> i], Str(text))

\* The response renders the item page with exactly these three values.
Shows(resp, item, quantity, description) ==
    /\ resp.kind = "render"
    /\ resp.view = "item"
    /\ {"item", "quantity", "description"} \subseteq DOMAIN resp.locals
    /\ resp.locals.item = item
    /\ resp.locals.quantity = quantity
    /\ resp.locals.description = description

\* The text sub occurs in the text s.
Contains(s, sub) ==
    \E a \in 1..(Len(s) - Len(sub) + 1) : SubSeq(s, a, a + Len(sub) - 1) = sub

\* C1: a Detail the store answered for an id whose row was last written by
\* a Create or an Update renders exactly the item, quantity and description
\* of that request: the name and the description as sent, the quantity as
\* the integer its text denotes, and no description after a Create.
DetailShowsLastWrite ==
    \A k \in Slots :
        Answered(k, "detail") /\ Succeeded(k) =>
            \A i \in DOMAIN reqs[k].seen :
                LET e == reqs[k].seen[i]
                IN  e.op \in {"create", "update"} /\ Selects(ParamId(reqs[k].req), i) =>
                        /\ Len(reqs[k].sent) = 1
                        /\ Shows(reqs[k].sent[1], e.body.name, ParseInt(e.body.quantity),
                                 IF e.op = "create" THEN Null ELSE Str(e.body.description))

\* C1's case: a row was created, then updated, and a Detail rendered it.
DetailAfterCreateAndUpdate ==
    \E k \in Slots :
        /\ Answered(k, "detail") /\ Succeeded(k)
        /\ FirstNewId \in DOMAIN reqs[k].seen
        /\ reqs[k].seen[FirstNewId].op = "update"
        /\ reqs[k].seen[FirstNewId].body.quantity = "09"
        /\ Selects(ParamId(reqs[k].req), FirstNewId)
        /\ reqs[k].sent[1].kind = "render"
        /\ reqs[k].sent[1].locals.quantity = 9

\* C2: a Detail the store answered with no row for its id responds 404 with
\* a body that names the requested id as it was written in the path, and a
\* Detail renders the item page only with a row the store returned.
DetailNotFound ==
    \A k \in Slots :
        Answered(k, "detail") /\ Succeeded(k) =>
            /\ reqs[k].matched = {} =>
                /\ Len(reqs[k].sent) = 1
                /\ reqs[k].sent[1].kind = "send"
                /\ reqs[k].sent[1].status = 404
                /\ Contains(reqs[k].sent[1].body, ParamId(reqs[k].req))
            /\ \A n \in 1..Len(reqs[k].sent) :
                reqs[k].sent[n].kind = "render" =>
                    /\ reqs[k].matched # {}
                    /\ reqs[k].sent[n].locals \in reqs[k].results.rows

\* C2's case: the row with id 1 was deleted and a Detail asked for "01".
NotFoundNamesPathText ==
    \E k \in Slots :
        /\ Answered(k, "detail") /\ Succeeded(k)
        /\ reqs[k].matched = {}
        /\ ParamId(reqs[k].req) = "01"
        /\ 1 \in DOMAIN reqs[k].seen
        /\ reqs[k].sent[1].status = 404

\* C3: a Detail the store answered at the location a Create was redirected
\* to, with no write to the row in between, renders the Create's name, the
\* integer its quantity denotes and a NULL description, also when the
\* Create's body carried a description.
CreateThenDetail ==
    \A k \in Slots :
        Answered(k, "detail") /\ Succeeded(k) =>
            \A i \in DOMAIN reqs[k].seen :
                LET e == reqs[k].seen[i]
                IN  e.op = "create" /\ e.location = reqs[k].req.path =>
                        /\ Len(reqs[k].sent) = 1
                        /\ Shows(reqs[k].sent[1], e.body.name, ParseInt(e.body.quantity), Null)

\* C3's case: the Create's body carried a description, and the Detail at its
\* redirect rendered the row.
DetailOfCreateWithDescription ==
    \E k \in Slots :
        /\ Answered(k, "detail") /\ Succeeded(k)
        /\ \E i \in DOMAIN reqs[k].seen :
            /\ reqs[k].seen[i].op = "create"
            /\ reqs[k].seen[i].location = reqs[k].req.path
            /\ "description" \in DOMAIN reqs[k].seen[i].body
            /\ reqs[k].seen[i].body.description = "Y"
        /\ reqs[k].sent[1].kind = "render"

\* C4: once the store has executed an Update that selected a row without
\* error, the row holds exactly the Update's name, quantity and description,
\* whatever it held before, and a Detail the store answers for the id while
\* that Update is the row's last write renders exactly those three values.
UpdateOverwritesAll ==
    \A k \in Slots :
        /\ Answered(k, "update") /\ Succeeded(k) =>
            \A r \in stuff :
                r.id \in reqs[k].matched =>
                    r = [id |-> r.id, item |-> reqs[k].req.body.name,
                         quantity |-> ParseInt(reqs[k].req.body.quantity),
                         description |-> Field(reqs[k].req.body, "description")]
        /\ Answered(k, "detail") /\ Succeeded(k) =>
            \A i \in DOMAIN reqs[k].seen :
                LET e == reqs[k].seen[i]
                IN  e.op = "update" /\ Selects(ParamId(reqs[k].req), i) =>
                        /\ Len(reqs[k].sent) = 1
                        /\ Shows(reqs[k].sent[1], e.body.name, ParseInt(e.body.quantity),
                                 Str(e.body.description))

\* C4's case: the Update replaced a row that differed from its body in item,
\* quantity and description.
UpdateReplacedAllThree ==
    \E k \in Slots :
        /\ Answered(k, "update") /\ Succeeded(k)
        /\ \E old \in reqs[k].table :
            /\ old.id \in reqs[k].matched
            /\ old.item # reqs[k].req.body.name
            /\ old.quantity # ParseInt(reqs[k].req.body.quantity)
            /\ old.description # Null
            /\ old.description # Str(reqs[k].req.body.description)

\* C5: after a Delete that removed a row without error, a List the store
\* answers renders no row with that id and a Detail the store answers for
\* that id responds 404.
DeletedStaysGone ==
    \A k \in Slots :
        /\ Answered(k, "list") /\ Succeeded(k) =>
            \A n \in 1..Len(reqs[k].sent) :
                reqs[k].sent[n].kind = "render" =>
                    \A r \in reqs[k].sent[n].locals.inventory.rows :
                        ~(r.id \in DOMAIN reqs[k].seen /\ reqs[k].seen[r.id].op = "delete")
        /\ Answered(k, "detail") /\ Succeeded(k) =>
            \A i \in DOMAIN reqs[k].seen :
                reqs[k].seen[i].op = "delete" /\ Selects(ParamId(reqs[k].req), i) =>
                    /\ Len(reqs[k].sent) = 1
                    /\ reqs[k].sent[1].status = 404

\* C5's case: a List rendered after the row with id 1 was deleted.
ListAfterDelete ==
    \E k \in Slots :
        /\ Answered(k, "list") /\ Succeeded(k)
        /\ 1 \in DOMAIN reqs[k].seen
        /\ reqs[k].seen[1].op = "delete"
        /\ reqs[k].sent[1].kind = "render"

\* C6: a List the store answered renders the list view with exactly one
\* entry per row the table held when the statement ran, each entry the
\* row's id, item and quantity and nothing else.
ListShowsAll ==
    \A k \in Slots :
        Answered(k, "list") /\ Succeeded(k) =>
            /\ Len(reqs[k].sent) = 1
            /\ reqs[k].sent[1].kind = "render"
            /\ reqs[k].sent[1].view = "stuff"
            /\ LET inv == reqs[k].sent[1].locals.inventory.rows
               IN  /\ inv = { [id |-> r.id, item |-> r.item, quantity |-> r.quantity] :
                              r \in reqs[k].table }
                   /\ Cardinality(inv) = Cardinality(reqs[k].table)
                   /\ \A x \in inv : DOMAIN x = {"id", "item", "quantity"}

\* C6's case: a List of a table that holds inserted and updated rows, some
\* with a description.
ListOfChangedTable ==
    \E k \in Slots :
        /\ Answered(k, "list") /\ Succeeded(k)
        /\ Cardinality(reqs[k].table) > Cardinality(SampleRows)
        /\ \E r \in reqs[k].table : r.id >= FirstNewId /\ r.description # Null
        /\ reqs[k].sent[1].kind = "render"

\* C8: a request being handled has issued exactly one statement; it has
\* sent no response before the store reported, and exactly one after its
\* callback ran, whether the store reported an error or not.
OneStatementOneResponse ==
    \A k \in Slots :
        reqs[k].pc # "idle" =>
            /\ Len(reqs[k].issued) = 1
            /\ reqs[k].pc \in {"query", "result"} => Len(reqs[k].sent) = 0
            /\ reqs[k].pc = "done" => Len(reqs[k].sent) = 1

\* C8's case: an Update whose statement the store rejected has responded.
RejectedUpdateAnswered ==
    \E k \in Slots :
        /\ Answered(k, "update")
        /\ reqs[k].error = Str("ER_BAD_VALUE")
        /\ Len(reqs[k].sent) = 1

\* C9: when the store reported an error, the response of every route is
\* the status 500 with that error as its body, and nothing else is sent.
StoreErrorIs500 ==
    \A k \in Slots :
        reqs[k].pc = "done" /\ ~Succeeded(k) =>
            reqs[k].sent = <<Send(500, reqs[k].error)>>

\* C9's case: the connection was lost under a List.
ListLostConnection ==
    \E k \in Slots :
        /\ Answered(k, "list")
        /\ reqs[k].error = Str("ECONNREFUSED")
        /\ reqs[k].sent[1].status = 500

\* C10: a Delete or an Update whose id selected no row, and for which the
\* store reported no error, is redirected as on success: the Delete to
\* /stuff, the Update to /stuff/item/ followed by the path parameter as it
\* was written; and no Delete or Update responds 404.
NoRowStillRedirects ==
    \A k \in Slots :
        /\ Answered(k, "delete") /\ Succeeded(k) /\ reqs[k].matched = {} =>
            reqs[k].sent = <<Redirect(<<"stuff">>)>>
        /\ Answered(k, "update") /\ Succeeded(k) /\ reqs[k].matched = {} =>
            reqs[k].sent = <<Redirect(<<"stuff", "item", reqs[k].req.path[3]>>)>>
        /\ Answered(k, "delete") \/ Answered(k, "update") =>
            \A n \in 1..Len(reqs[k].sent) : reqs[k].sent[n].status # 404

\* C10's case: an Update for "01" after the row with id 1 was deleted.
UpdateOfMissingRow ==
    \E k \in Slots :
        /\ Answered(k, "update") /\ Succeeded(k)
        /\ reqs[k].matched = {}
        /\ reqs[k].req.path[3] = "01"
        /\ reqs[k].results.affectedRows = 0
        /\ reqs[k].sent[1].kind = "redirect"

----------------------------------------------------------------------------
(* Properties of the round trip.                                           *)

\* C7: when the round trip Create, Detail, Update, Detail, Delete, List has
\* run to its end, the final List renders no row with the id the Create was
\* redirected to, and the table holds exactly the rows it held before the
\* round trip, each as it was.
RoundTripRestores ==
    trip.step = TripDone =>
        /\ trip.final.kind = "render"
        /\ \A i \in DOMAIN lastWrite :
            lastWrite[i].op = "delete" =>
                \A r \in trip.final.locals.inventory.rows : r.id # i
        /\ { r.id : r \in trip.final.locals.inventory.rows } = { r.id : r \in trip.before }
        /\ stuff = trip.before

\* C7's case: a round trip that started from a changed table has run to its
\* end, and the row it created was deleted on the way.
RoundTripRan ==
    /\ trip.step = TripDone
    /\ trip.before # SampleRows
    /\ trip.before # {}
    /\ trip.final.kind = "render"
    /\ \E i \in DOMAIN lastWrite :
        /\ lastWrite[i].op = "delete"
        /\ lastWrite[i].location = ListPath
        /\ \A r \in trip.before : r.id # i

----------------------------------------------------------------------------
(* Further properties of the sequential specification.                     *)

Ids(table) == { r.id : r \in table }

\* The step is the store executing the statement of the request in slot k.
Executes(k) == reqs[k].pc = "query" /\ reqs'[k].pc = "result"

\* The step is the store executing the statement of a request of that route.
ExecutesRoute(route) ==
    \E k \in Slots : Executes(k) /\ Route(reqs[k].req) = route

\* A step that is not the execution of a Delete's statement removes no id.
IdsLeaveOnlyByDelete ==
    ExecutesRoute("delete") \/ (Ids(stuff) \subseteq Ids(stuff'))

\* A step that is not the execution of a Create's statement adds no id.
IdsEnterOnlyByCreate ==
    ExecutesRoute("create") \/ (Ids(stuff') \subseteq Ids(stuff))

\* C11: a Create for which the store reported no error is redirected to
\* /stuff/item/ followed by the id of the row its own statement inserted,
\* and a Create for which the store reported an error is not redirected.
CreateRedirectsToNewId ==
    \A k \in Slots :
        Answered(k, "create") =>
            /\ Succeeded(k) =>
                \E r \in stuff :
                    /\ r.id \notin Ids(reqs[k].table)
                    /\ r.item = reqs[k].req.body.name
                    /\ Len(reqs[k].sent) = 1
                    /\ reqs[k].sent[1].kind = "redirect"
                    /\ Len(reqs[k].sent[1].location) = 3
                    /\ SubSeq(reqs[k].sent[1].location, 1, 2) = <<"stuff", "item">>
                    /\ Selects(reqs[k].sent[1].location[3], r.id)
            /\ ~Succeeded(k) =>
                \A n \in 1..Len(reqs[k].sent) : reqs[k].sent[n].kind # "redirect"

\* C11's case: the second Create since the table was set up is redirected.
SecondCreateRedirected ==
    \E k \in Slots :
        /\ Answered(k, "create") /\ Succeeded(k)
        /\ FirstNewId + 1 \in Ids(stuff)
        /\ FirstNewId + 1 \notin Ids(reqs[k].table)
        /\ reqs[k].sent[1].kind = "redirect"

\* C12: no two rows of the table share an id, and the store executing an
\* Update's statement leaves the set of ids and the number of rows as they
\* were; an id leaves the table only when a Delete's statement is executed
\* and enters it only when a Create's statement is executed.
IdsUniqueAndKept ==
    /\ [](\A r1, r2 \in stuff : r1.id = r2.id => r1 = r2)
    /\ [][\A k \in Slots :
            Executes(k) /\ Route(reqs[k].req) = "update" =>
                /\ Ids(stuff') = Ids(stuff)
                /\ Cardinality(stuff') = Cardinality(stuff)]_vars
    /\ [][IdsLeaveOnlyByDelete /\ IdsEnterOnlyByCreate]_vars

\* C12's case: an Update changed a row of a table that holds inserted rows.
UpdateChangedRow ==
    \E k \in Slots :
        /\ Answered(k, "update") /\ Succeeded(k)
        /\ reqs[k].matched # {}
        /\ stuff # reqs[k].table
        /\ Ids(stuff) = Ids(reqs[k].table)
        /\ FirstNewId \in Ids(stuff)

\* C13: a row leaves the table only in the step in which the store executes,
\* without error, the statement of a Delete whose path parameter selects the
\* row's id.
OnlyDeleteRemoves ==
    [][\A i \in Ids(stuff) \ Ids(stuff') :
        \E k \in Slots :
            /\ Executes(k)
            /\ Route(reqs[k].req) = "delete"
            /\ reqs'[k].error = Null
            /\ Selects(ParamId(reqs[k].req), i)]_vars

\* C13's case: an inserted row that was updated is still there after a
\* Delete of another id succeeded.
RowSurvivedOtherDelete ==
    \E k \in Slots :
        /\ Answered(k, "delete") /\ Succeeded(k)
        /\ reqs[k].matched = {1}
        /\ FirstNewId \in Ids(stuff)
        /\ FirstNewId \in DOMAIN lastWrite
        /\ lastWrite[FirstNewId].op = "update"

\* C14: no step of a List or a Detail, from its arrival to its response and
\* whatever the response is, changes the table or its counter.
ReadsDoNotMutate ==
    [][\A k \in Slots :
        /\ reqs[k].pc # "idle"
        /\ Route(reqs[k].req) \in {"list", "detail"}
        => stuff' = stuff /\ autoInc' = autoInc]_vars

\* C14's case: a Detail answered 404 on a table that requests have changed.
DetailNotFoundOnChangedTable ==
    \E k \in Slots :
        /\ Answered(k, "detail") /\ Succeeded(k)
        /\ reqs[k].sent[1].status = 404
        /\ stuff = reqs[k].table
        /\ stuff # SampleRows

\* C20: the store executing the statement of an Update or a Delete leaves
\* every row whose id the path parameter does not select as it was, and the
\* store executing the statement of a Create leaves every row as it was.
OtherRowsUntouched ==
    [][\A k \in Slots :
        Executes(k) =>
            /\ Route(reqs[k].req) \in {"update", "delete"} =>
                \A r \in stuff : ~Selects(ParamId(reqs[k].req), r.id) => r \in stuff'
            /\ Route(reqs[k].req) = "create" => stuff \subseteq stuff']_vars

\* C20's case: an Update changed the row with id 1 of a table that holds an
\* inserted row.
UpdateBesideInsertedRow ==
    \E k \in Slots :
        /\ Answered(k, "update") /\ Succeeded(k)
        /\ reqs[k].matched = {1}
        /\ stuff # reqs[k].table
        /\ FirstNewId \in Ids(stuff)

\* C21: a request answered with status 500 has issued one statement and
\* leaves the table as it was before the store was given that statement, and
\* the step in which the response is made leaves the table and its counter
\* alone.
Status500LeavesStore ==
    /\ [](\A k \in Slots :
            /\ reqs[k].pc = "done"
            /\ \E n \in 1..Len(reqs[k].sent) : reqs[k].sent[n].status = 500
            => /\ Len(reqs[k].issued) = 1
               /\ stuff = reqs[k].table)
    /\ [][\A k \in Slots :
            reqs[k].pc = "result" => stuff' = stuff /\ autoInc' = autoInc]_vars

\* C21's case: the store rejected the Update of an existing row of a table
\* that requests have changed.
RejectedUpdateOfRow ==
    \E k \in Slots :
        /\ Answered(k, "update")
        /\ reqs[k].error = Str("ER_BAD_VALUE")
        /\ reqs[k].matched # {}
        /\ reqs[k].sent[1].status = 500
        /\ stuff # SampleRows

\* The ids given to rows since the table was set up.
Assigned == Ids(SampleRows) \cup DOMAIN lastWrite

\* The store executing a Create's statement without error adds one row,
\* whose id no row had before and which the result reports.
CreateAssignsFreshId ==
    \A k \in Slots :
        Executes(k) /\ Route(reqs[k].req) = "create" /\ reqs'[k].error = Null =>
            /\ Cardinality(Ids(stuff') \ Ids(stuff)) = 1
            /\ \A i \in Ids(stuff') \ Ids(stuff) :
                /\ i \notin Assigned
                /\ reqs'[k].results.insertId = i

\* C25: a Create is never given an id that a row had before, deleted or not;
\* the row of a deleted id stays away, and a Detail for it is answered 404.
IdsNeverReused ==
    /\ [][CreateAssignsFreshId]_vars
    /\ [](\A i \in DOMAIN lastWrite : lastWrite[i].op = "delete" => i \notin Ids(stuff))
    /\ [](\A k \in Slots :
            Answered(k, "detail") /\ Succeeded(k) =>
                \A i \in DOMAIN reqs[k].seen :
                    reqs[k].seen[i].op = "delete" /\ Selects(ParamId(reqs[k].req), i)
                        => reqs[k].sent = <<Send(404, NotFoundMessage(ParamId(reqs[k].req)))>>)

\* C25's case: the last inserted row was deleted and a Create came after.
CreateAfterDeleteOfLast ==
    \E k \in Slots :
        /\ Answered(k, "create") /\ Succeeded(k)
        /\ FirstNewId \in DOMAIN lastWrite
        /\ lastWrite[FirstNewId].op = "delete"
        /\ FirstNewId + 1 \in Ids(stuff)
        /\ FirstNewId + 1 \notin Ids(reqs[k].table)

\* The statement and parameters bound to a method and a path.
Bound(req, call) ==
    CASE req.method = "GET" /\ Len(req.path) = 1 ->
            call.sql.cmd = "SELECT" /\ ~call.sql.byId /\ call.params = <<>>
      [] req.method = "GET" /\ Len(req.path) = 3 ->
            call.sql.cmd = "SELECT" /\ call.sql.byId /\ call.params = <<Str(req.path[3])>>
      [] req.method = "GET" /\ Len(req.path) = 4 ->
            call.sql.cmd = "DELETE" /\ call.sql.byId /\ call.params = <<Str(req.path[3])>>
      [] req.method = "POST" /\ Len(req.path) = 3 ->
            /\ call.sql.cmd = "UPDATE" /\ call.sql.byId
            /\ Len(call.params) = 4 /\ call.params[4] = Str(req.path[3])
      [] req.method = "POST" /\ Len(req.path) = 1 ->
            call.sql.cmd = "INSERT" /\ Len(call.params) = 2

\* C26: every request being handled has issued exactly one statement, the
\* one bound to its method and path, and the store is given a statement
\* only by a request that has issued it and has no outcome yet.
OneRouteOneStatement ==
    /\ [](\A k \in Slots :
            reqs[k].pc # "idle" =>
                /\ Len(reqs[k].issued) = 1
                /\ Bound(reqs[k].req, reqs[k].issued[1]))
    /\ [][stuff' # stuff \/ autoInc' # autoInc => \E k \in Slots : Executes(k)]_vars

\* C26's case: a GET of a delete path has had its DELETE executed and a row
\* is gone.
DeletePathDeleted ==
    \E k \in Slots :
        /\ reqs[k].pc = "result"
        /\ reqs[k].req.method = "GET" /\ Len(reqs[k].req.path) = 4
        /\ reqs[k].issued[1].sql.cmd = "DELETE"
        /\ stuff # reqs[k].table

----------------------------------------------------------------------------
(* Properties of the same request sent twice.                              *)

\* Both runs have their response.
Twice == Len(runs) = 2 /\ runs[2].done

\* The second run met the table and counter as the first left them.
InARow ==
    /\ Twice
    /\ runs[2].before = runs[1].after
    /\ runs[2].auto = runs[1].autoAfter

\* The second run met the table and counter that the first met.
SameStart ==
    /\ Twice
    /\ runs[2].before = runs[1].before
    /\ runs[2].auto = runs[1].auto

RunSucceeded(n) == runs[n].error = Null

\* The store could not be reached for the run's statement.
RunLost(n) == runs[n].error = Str("ECONNREFUSED")

\* C15: when a Delete is sent twice in a row and the store reports no error
\* for the first, the second leaves the table as the first left it; when the
\* store reports no error for either, both are answered with the same
\* redirect to /stuff.
DeleteTwiceSameAsOnce ==
    InARow /\ Route(runs[1].req) = "delete" =>
        /\ RunSucceeded(1) =>
            /\ runs[2].after = runs[1].after
            /\ runs[2].autoAfter = runs[1].autoAfter
        /\ RunSucceeded(1) /\ RunSucceeded(2) =>
            /\ runs[1].sent = <<Redirect(<<"stuff">>)>>
            /\ runs[2].sent = <<Redirect(<<"stuff">>)>>

\* C15's case: the first Delete removed a row and the second succeeded too.
DeletedTwice ==
    /\ InARow /\ Route(runs[1].req) = "delete"
    /\ RunSucceeded(1) /\ RunSucceeded(2)
    /\ runs[1].after # runs[1].before

\* C16 as stated: repeating a successful Update does not leave the table and
\* the response the same as issuing it once.
UpdateTwiceDiffers ==
    /\ InARow /\ Route(runs[1].req) = "update"
    /\ RunSucceeded(1) /\ RunSucceeded(2)
    => ~(runs[2].after = runs[1].after /\ runs[2].sent = runs[1].sent)

\* C16: when an Update is sent twice in a row and the store reports no error
\* for the first, the second leaves the table as the first left it; when the
\* store reports no error for either, both are answered with the same
\* redirect to the item's Detail path.
UpdateTwiceSameAsOnce ==
    InARow /\ Route(runs[1].req) = "update" =>
        /\ RunSucceeded(1) =>
            /\ runs[2].after = runs[1].after
            /\ runs[2].autoAfter = runs[1].autoAfter
        /\ RunSucceeded(1) /\ RunSucceeded(2) =>
            /\ runs[1].sent = <<Redirect(<<"stuff", "item", runs[1].req.path[3]>>)>>
            /\ runs[2].sent = runs[1].sent

\* C16's case: the first Update changed a row and the second succeeded too.
UpdatedTwice ==
    /\ InARow /\ Route(runs[1].req) = "update"
    /\ RunSucceeded(1) /\ RunSucceeded(2)
    /\ runs[1].after # runs[1].before

\* The location a run was redirected to, <<>> if it was not redirected.
RunLocation(n) ==
    IF Len(runs[n].sent) = 1 /\ runs[n].sent[1].kind = "redirect"
    THEN runs[n].sent[1].location
    ELSE <<>>

\* C17: when a Create is sent twice in a row and the store reports no error
\* for either, the table has two rows more than before, with distinct ids
\* and the body's name, and the two are redirected to different paths, each
\* to the Detail path of its own row.
CreateTwiceTwoRows ==
    /\ InARow /\ Route(runs[1].req) = "create"
    /\ RunSucceeded(1) /\ RunSucceeded(2)
    => /\ runs[1].before \subseteq runs[2].after
       /\ Cardinality(runs[2].after) = Cardinality(runs[1].before) + 2
       /\ \E r1 \in runs[1].after \ runs[1].before :
          \E r2 \in runs[2].after \ runs[1].after :
            /\ r1.id # r2.id
            /\ r1.item = runs[1].req.body.name
            /\ r2.item = runs[1].req.body.name
            /\ Len(RunLocation(1)) = 3 /\ Len(RunLocation(2)) = 3
            /\ Selects(RunLocation(1)[3], r1.id)
            /\ Selects(RunLocation(2)[3], r2.id)
       /\ RunLocation(1) # RunLocation(2)

\* C17's case: two Creates with the same body, both redirected.
CreatedTwice ==
    /\ InARow /\ Route(runs[1].req) = "create"
    /\ RunSucceeded(1) /\ RunSucceeded(2)
    /\ "description" \in DOMAIN runs[1].req.body
    /\ RunLocation(2) # <<>>

----------------------------------------------------------------------------
(* Properties of the Updates handled at the same time.                     *)

\* The row with that id holds exactly the three values of the body.
HoldsBody(i, body) ==
    \E r \in stuff :
        /\ r = [id |-> i, item |-> body.name,
                quantity |-> ParseInt(body.quantity),
                description |-> Str(body.description)]
        /\ \A x \in stuff : x.id = i => x = r

\* C19: once an Update of the row with id 1 has been executed, the row holds
\* exactly the three values of the Update the store executed last; when all
\* the Updates handled at the same time have completed without error, that
\* Update is one of them and the row holds its values, never a mix with
\* another's.
LastUpdateWins ==
    /\ 1 \in DOMAIN lastWrite => HoldsBody(1, lastWrite[1].body)
    /\ (\A k \in Slots : Answered(k, "update") /\ Succeeded(k)) =>
        /\ 1 \in DOMAIN lastWrite
        /\ \E k \in Slots :
            /\ reqs[k].req.body = lastWrite[1].body
            /\ HoldsBody(1, reqs[k].req.body)

\* C19's case: all the Updates have completed without error, they did not
\* all carry the same values, and the one executed first has lost.
UpdatesRaced ==
    /\ \A k \in Slots : Answered(k, "update") /\ Succeeded(k)
    /\ \E j, k \in Slots :
        /\ reqs[j].req.body.name # reqs[k].req.body.name
        /\ reqs[j].table = SampleRows
        /\ ~HoldsBody(1, reqs[j].req.body)

----------------------------------------------------------------------------
(* An Update and the redirect it returns.  A client posts an Update, and   *)
(* follows the redirect to the Detail page, with or without a Create sent  *)
(* in between.  runs records the requests as before.                       *)

FollowRequests ==
    IF runs = <<>>
    THEN { Post(ItemPath(i), b) : i \in IdTexts, b \in Bodies }
    ELSE IF ~runs[Len(runs)].done \/ RunLocation(1) = <<>>
    THEN {}
    ELSE IF Len(runs) = 1
    THEN {Get(RunLocation(1))} \cup { Post(ListPath, b) : b \in Bodies }
    ELSE IF Len(runs) = 2 /\ Route(runs[2].req) = "create"
    THEN {Get(RunLocation(1))}
    ELSE {}

FollowSend ==
    /\ \E req \in FollowRequests :
            /\ Receive(1, req)
            /\ runs' = Append(runs, Started(req))
    /\ UNCHANGED <<trip, script>>

NextFollow ==
    \/ FollowSend
    \/ StoreExecute(1) /\ UNCHANGED <<trip, runs, script>>
    \/ Callback(1) /\ UNCHANGED <<trip, runs, script>>
    \/ TwiceComplete

SpecFollow == InitTwice /\ [][NextFollow]_vars

\* The Update found no row with the id its path names, and the store
\* reported no error.
UpdatedNoRow ==
    /\ Len(runs) >= 1 /\ runs[1].done /\ RunSucceeded(1)
    /\ \A r \in runs[1].before : ~Selects(runs[1].req.path[3], r.id)

\* A Create sent after the Update inserted a row with the id the Update's
\* path names.
CreatedBetween ==
    /\ Len(runs) = 3 /\ RunSucceeded(2)
    /\ \E r \in runs[2].after \ runs[2].before : Selects(runs[1].req.path[3], r.id)

\* The redirect of the Update has been followed and the store reported no
\* error for the Detail.
Followed ==
    /\ Len(runs) >= 2
    /\ runs[Len(runs)].done
    /\ runs[Len(runs)].req = Get(RunLocation(1))
    /\ RunSucceeded(Len(runs))

\* C22: an Update that finds no row with its id leaves the table as it was
\* and is redirected to the Detail path of that id, and the Detail at that
\* path is answered 404 exactly when no Create in between has inserted a row
\* with that id.
UpdateNeverCreates ==
    UpdatedNoRow =>
        /\ runs[1].after = runs[1].before
        /\ RunLocation(1) = <<"stuff", "item", runs[1].req.path[3]>>
        /\ Followed =>
            /\ Len(runs[Len(runs)].sent) = 1
            /\ runs[Len(runs)].sent[1].status = 404 <=> ~CreatedBetween

\* C22's case: the Update found no row, a Create in between inserted a row
\* with another id, and the Detail was answered 404.
MissingStayedMissing ==
    /\ UpdatedNoRow /\ Followed
    /\ Len(runs) = 3 /\ RunSucceeded(2)
    /\ ~CreatedBetween
    /\ runs[3].sent[1].status = 404

----------------------------------------------------------------------------
(* Creates handled at the same time.  Every slot takes one Create; the     *)
(* store executes the statements one at a time, in any order, and the      *)
(* callbacks run in any order.                                             *)

CreateRaces == { Post(ListPath, b) : b \in Bodies }

NextCreates ==
    \/ \E k \in Slots, req \in CreateRaces :
            Receive(k, req) /\ UNCHANGED <<trip, runs, script>>
    \/ \E k \in Slots : StoreExecute(k) /\ UNCHANGED <<trip, runs, script>>
    \/ \E k \in Slots : Callback(k) /\ UNCHANGED <<trip, runs, script>>

SpecCreates == Init /\ [][NextCreates]_vars

\* The store executing a statement without error adds exactly one row, with
\* an id no row has, and that id is the one noted for the request.
InsertsOneRow ==
    \A k \in Slots :
        Executes(k) /\ reqs'[k].error = Null =>
            /\ stuff \subseteq stuff'
            /\ Cardinality(stuff') = Cardinality(stuff) + 1
            /\ Cardinality(Ids(stuff')) = Cardinality(Ids(stuff)) + 1
            /\ reqs'[k].wrote = Ids(stuff') \ Ids(stuff)

\* The request was redirected to the Detail path of the row with id i.
RedirectedTo(k, i) ==
    /\ reqs[k].pc = "done"
    /\ Len(reqs[k].sent) = 1
    /\ reqs[k].sent[1].kind = "redirect"
    /\ Len(reqs[k].sent[1].location) = 3
    /\ SubSeq(reqs[k].sent[1].location, 1, 2) = <<"stuff", "item">>
    /\ Selects(reqs[k].sent[1].location[3], i)

\* C23: however the Creates interleave, each one the store executes without
\* error inserts exactly one row, no two rows share an id, each redirect
\* names the id of the row its own request inserted, which carries that
\* request's values, and no two requests are redirected to the same id.
ConcurrentCreatesDistinct ==
    /\ [][InsertsOneRow]_vars
    /\ [](\A r1, r2 \in stuff : r1.id = r2.id => r1 = r2)
    /\ [](\A k \in Slots :
            Answered(k, "create") /\ Succeeded(k) =>
                \E r \in stuff :
                    /\ reqs[k].wrote = {r.id}
                    /\ r.item = reqs[k].req.body.name
                    /\ r.quantity = ParseInt(reqs[k].req.body.quantity)
                    /\ RedirectedTo(k, r.id)
                    /\ \A j \in Slots \ {k} : ~RedirectedTo(j, r.id))

\* C23's case: two Creates with different values were redirected, the one
\* the store executed second having its callback run while the first was
\* still waiting for its own.
CreatesInterleaved ==
    \E j, k \in Slots :
        /\ reqs[k].pc = "result" /\ Succeeded(k)
        /\ reqs[k].table = SampleRows
        /\ Answered(j, "create") /\ Succeeded(j)
        /\ reqs[j].table # SampleRows
        /\ reqs[j].req.body.name # reqs[k].req.body.name
        /\ RedirectedTo(j, FirstNewId + 1)

----------------------------------------------------------------------------
(* Requests of all five routes handled at the same time, with the store    *)
(* reporting an outcome for every statement it is given and the callback   *)
(* of every reported outcome being run.  Every slot takes one request: the *)
(* first any of LiveRequests, the others a List or an Update.              *)

\* One request per way through each handler: a Detail that finds its row and
\* one that does not, an Update the store accepts and one it rejects.
LiveRequests ==
    { Get(ListPath),
      Get(ItemPath("1")),
      Get(ItemPath(FormatInt(FirstNewId))),
      Get(DeletePath("1")),
      Post(ListPath, [name |-> "Widgets", quantity |-> "5"]),
      Post(ItemPath("1"), [name |-> "X", quantity |-> "09", description |-> "Y"]),
      Post(ItemPath("1"), [name |-> "X", quantity |-> "x", description |-> "Y"]) }

\* The requests handled next to the first slot's: a read and a write.
OtherRequests ==
    { req \in LiveRequests :
        \/ Route(req) = "list"
        \/ Route(req) = "update" /\ req.body.quantity = "09" }

NextLive ==
    \/ \E req \in LiveRequests : Receive(1, req) /\ UNCHANGED <<trip, runs, script>>
    \/ \E k \in Slots \ {1}, req \in OtherRequests :
            Receive(k, req) /\ UNCHANGED <<trip, runs, script>>
    \/ \E k \in Slots : StoreExecute(k) /\ UNCHANGED <<trip, runs, script>>
    \/ \E k \in Slots : Callback(k) /\ UNCHANGED <<trip, runs, script>>

\* A request in flight takes its next step: the store reports the outcome of
\* its statement, or the event loop runs the callback of a reported outcome.
Progress ==
    \E k \in Slots :
        \/ StoreExecute(k) /\ UNCHANGED <<trip, runs, script>>
        \/ Callback(k) /\ UNCHANGED <<trip, runs, script>>

\* As long as some request in flight can take a step, one is taken.  Every
\* slot takes one request, so this gives each of them its steps.
Fairness == WF_vars(Progress)

SpecLive == Init /\ [][NextLive]_vars /\ Fairness

\* C24: every request a handler has accepted eventually has exactly one
\* response; and whatever the other requests are doing, the store can be
\* given the statement of a request that has issued one, and the callback of
\* a request whose outcome is reported can run.
EveryRequestAnswered ==
    /\ \A k \in Slots :
        reqs[k].pc = "query" ~> (reqs[k].pc = "done" /\ Len(reqs[k].sent) = 1)
    /\ [](\A k \in Slots :
            /\ reqs[k].pc = "query" => ENABLED StoreExecute(k)
            /\ reqs[k].pc = "result" => ENABLED Callback(k))

\* C24's case: a Detail has been answered 404 while an earlier request is
\* still waiting for the store.
AnsweredWhileOtherWaits ==
    \E j, k \in Slots :
        /\ Answered(j, "detail") /\ Succeeded(j)
        /\ reqs[j].sent[1].status = 404
        /\ reqs[k].pc = "query"
        /\ Route(reqs[k].req) = "update"

----------------------------------------------------------------------------
(* Properties of the initialisation script.                                *)

\* The script has run to its end.
ScriptRan == script.run >= 1 /\ script.pc = 0

\* C27: whatever table the script finds, or none, its statements take
\* effect in program order: after the DROP there is no table, after the
\* CREATE an empty one, after the n-th INSERT the first n sample rows with
\* ids 1 to n; no statement fails; and when it has ended, the first time or
\* the second, the table holds exactly the four sample rows with ids 1 to 4,
\* the counter stands behind them, and the script has read those four rows.
DbInitResets ==
    /\ script.pc # ScriptFailed
    /\ script.pc = 2 => ~script.exists /\ stuff = {}
    /\ script.pc \in 3..(Len(DbInitCalls) + 1) =>
        /\ script.exists
        /\ stuff = { r \in SampleRows : r.id <= script.pc - 3 }
        /\ \A r \in SampleRows : r.id > script.pc - 3 => autoInc <= r.id
    /\ ScriptRan =>
        /\ script.exists
        /\ stuff = SampleRows
        /\ { r.item : r \in stuff } = {"Widgets", "Gizmos", "Thingamajig", "Thingamabob"}
        /\ \A r \in stuff : r.item = "Gizmos" => r.description = Null
        /\ Ids(stuff) = 1..4
        /\ autoInc = FirstNewId
        /\ script.read = [length |-> 4, rows |-> SampleRows]

\* C27's case: the script has run twice, the first time on a table that
\* requests had changed.
ScriptRanTwice ==
    /\ ScriptRan
    /\ script.run = 2
    /\ script.before # SampleRows
    /\ script.before # {}

====
